---- MODULE Spec2Model ----
(***************************************************************************)
(* Model of the ncspot coordination core: the event hub, the run loop of   *)
(* Application::run (src/src/application.rs), the device-change forwarding *)
(* task of Application::new and the device monitor of                      *)
(* src/src/macos_audio.rs.                                                 *)
(*                                                                         *)
(* Every handler of the run loop is one action.  The calls a handler makes *)
(* on its collaborators (Spotify, Queue, Config, CommandManager, IpcSocket)*)
(* are computed, in source order, by a ...Calls operator; the effect of a  *)
(* call on the collaborator's state is given by Apply.  The variable calls *)
(* is the log of the calls of the loop's latest step.                      *)
(***************************************************************************)
EXTENDS Integers, Sequences, FiniteSets, TLC

VARIABLES
  pc,          \* position of Application::run: "head", "step", "signals", "drain", "done";
               \* of Application::new before it: "new", "restored"
  running,     \* cursive.is_running()
  hub,         \* events queued in the EventManager channel
  devChan,     \* device names queued in the monitor -> forwarder channel (device_tx/device_rx)
  lastDevice,  \* last_device_name of the device monitor (an Option)
  pending,     \* signals delivered and not yet polled (one flag per signal)
  posted,      \* per producer: number of events posted to the hub
  taken,       \* per producer: number of its events dispatched by the run loop
  calls,       \* collaborator calls of the run loop's latest step, in order
  evt,         \* the event that step dispatched (NoEvent when it dispatched none)
  status,      \* Spotify's playback status (update_status / get_current_status)
  queueCur,    \* queue.get_current() (an Option)
  cfgDevice,   \* backend_device of the configuration (an Option)
  worker,      \* the playback worker: active, device bound at start, loaded track
  ipc,         \* whether self.ipc is Some
  apc,         \* position of get_credentials: "start", "test", "prompt", "pkce",
               \* "with_secret", "accept", "recv", "done", "panicked"
  secret,      \* client_secret of the configuration (an Option)
  cache,       \* cache.credentials() (an Option)
  cred,        \* the local credentials of get_credentials (an Option: None before the first)
  promptMsg,   \* error_message handed to credentials_prompt (an Option)
  aresult,     \* what get_credentials returned (an Option of a Result)
  attempts,    \* calls of credentials_prompt so far
  validations, \* calls of Spotify::test_credentials so far
  lastTest,    \* the latest test_credentials call: its argument and its result (an Option)
  alog,        \* calls made since get_credentials or the latest credentials_prompt began
  redirectUri, \* redirect_uri of create_credentials_with_secret (an Option)
  conn,        \* the connection the callback listener accepted (an Option)
  xcode,       \* the authorization code moved into the exchange thread (an Option)
  chan,        \* the mpsc channel of the token exchange
  xthread      \* the token exchange thread: "none", "running", "done"

authVars == <<apc, secret, cache, cred, promptMsg, aresult, attempts, validations,
              lastTest, alog, redirectUri, conn, xcode, chan, xthread>>

vars == <<pc, running, hub, devChan, lastDevice, pending, posted, taken,
          calls, evt, status, queueCur, cfgDevice, worker, ipc, authVars>>

----------------------------------------------------------------------------
(* Bounds of the model *)

MaxPosts == 2      \* events sent by all producers together
MaxAttempts == 2   \* interactive login attempts of one get_credentials call

----------------------------------------------------------------------------
(* Values *)

None == <<>>
Some(x) == <<x>>

\* Option<String>::unwrap_or_default
UnwrapOrDefault(o) == IF o = None THEN "" ELSE o[1]

PlayerStates == {"Playing", "Paused", "Stopped", "FinishedTrack"}
Tracks == {"X", "Y"}
Positions == {0, 30000}
DeviceNames == {"Speakers", "Headphones"}
\* what get_default_output_device_name can return
Observed == {None, Some("")} \cup {Some(d) : d \in DeviceNames}
SignalKinds == {"SIGTERM", "SIGHUP"}
Producers == {"worker", "ipc", "queue", "device"}
NoTrack == [track |-> "<none>", pos |-> 0, play |-> FALSE]

\* lines received on the IPC socket, as token sequences
IpcInputs == { <<>>, <<"quit">>, <<"play", ";", "next">>, <<"play", ";", "bogus">> }

Event(kind, arg, prod, seq) == [kind |-> kind, arg |-> arg, prod |-> prod, seq |-> seq]

NoEvent == Event("<none>", <<>>, "<none>", 0)

Call(op, a, b, n, f) == [op |-> op, a |-> a, b |-> b, n |-> n, f |-> f]

\* whether, how often and where a log holds a call
Has(cs, c) == \E i \in 1..Len(cs) : cs[i] = c
CountOp(cs, op) == Cardinality({i \in 1..Len(cs) : cs[i].op = op})
FirstOp(cs, op) ==
  IF CountOp(cs, op) = 0 THEN 0
  ELSE CHOOSE i \in 1..Len(cs) : cs[i].op = op /\ \A j \in 1..(i - 1) : cs[j].op # op

TotalSent == posted["worker"] + posted["ipc"] + posted["queue"] + posted["device"]
             + Len(devChan)

----------------------------------------------------------------------------
(* Collaborators that are outside src/: their effect on the state *)

\* command::parse: commands separated by ";", an unknown name is an error
CommandOf(tok) ==
  CASE tok = "quit" -> "Quit"
    [] tok = "play" -> "Play"
    [] tok = "next" -> "Next"
    [] OTHER -> "<error>"

RECURSIVE Parse(_)
Parse(toks) ==
  IF toks = <<>> THEN [ok |-> TRUE, cmds |-> <<>>]
  ELSE IF Head(toks) = ";" THEN Parse(Tail(toks))
  ELSE LET rest == Parse(Tail(toks))
           c == CommandOf(Head(toks))
       IN IF c = "<error>" \/ ~rest.ok
          THEN [ok |-> FALSE, cmds |-> <<>>]
          ELSE [ok |-> TRUE, cmds |-> <<c>> \o rest.cmds]

\* Queue::next: the item after the current one
NextTrack(cur) == IF cur = Some("X") THEN Some("Y") ELSE cur

\* the state the collaborators hold
CoState == [running |-> running, status |-> status, queueCur |-> queueCur,
            cfgDevice |-> cfgDevice, worker |-> worker]

Apply(st, c) ==
  CASE c.op = "spotify.update_status" -> [st EXCEPT !.status = c.a]
    [] c.op = "queue.next" -> [st EXCEPT !.queueCur = NextTrack(@)]
    [] c.op = "cmd.handle" ->
         IF c.a = "Quit" THEN [st EXCEPT !.running = FALSE] ELSE st
    [] c.op = "cursive.quit" -> [st EXCEPT !.running = FALSE]
    [] c.op = "spotify.start_worker" ->
         IF c.f
         THEN [st EXCEPT !.worker = [active |-> TRUE, device |-> st.cfgDevice,
                                     loaded |-> NoTrack]]
         ELSE [st EXCEPT !.worker = [active |-> FALSE, device |-> @.device,
                                     loaded |-> NoTrack]]
    [] c.op = "spotify.pause" \/ c.op = "spotify.stop" ->
         IF st.worker.loaded = NoTrack THEN st
         ELSE [st EXCEPT !.worker.loaded.play = FALSE]
    [] c.op = "spotify.load" ->
         IF st.worker.active
         THEN [st EXCEPT !.worker.loaded = [track |-> c.a, pos |-> c.n, play |-> c.f]]
         ELSE st
    [] c.op = "cfg.set_backend_device" ->
         [st EXCEPT !.cfgDevice = IF c.f THEN Some(c.a) ELSE None]
    [] OTHER -> st

RECURSIVE ApplyAll(_, _)
ApplyAll(st, cs) == IF cs = <<>> THEN st ELSE ApplyAll(Apply(st, Head(cs)), Tail(cs))

\* the calls of one step of the loop take effect and are logged
Perform(cs) ==
  LET st == ApplyAll(CoState, cs) IN
  /\ running' = st.running
  /\ status' = st.status
  /\ queueCur' = st.queueCur
  /\ cfgDevice' = st.cfgDevice
  /\ worker' = st.worker
  /\ calls' = cs

----------------------------------------------------------------------------
(* The event hub (EventManager, outside src/) *)

\* the producers live as long as the process: run has not returned
Alive == pc # "done"

\* EventManager::send by producer p
Post(p, kind, arg) ==
  /\ Alive
  /\ TotalSent < MaxPosts
  /\ hub' = Append(hub, Event(kind, arg, p, posted[p] + 1))
  /\ posted' = [posted EXCEPT ![p] = @ + 1]

WorkerPostPlayer ==
  /\ \E s \in PlayerStates : Post("worker", "Player", <<s>>)
  /\ UNCHANGED <<pc, running, devChan, lastDevice, pending, taken, calls,
                 evt, status, queueCur, cfgDevice, worker, ipc, authVars>>

WorkerPostSessionDied ==
  /\ Post("worker", "SessionDied", <<>>)
  /\ UNCHANGED <<pc, running, devChan, lastDevice, pending, taken, calls,
                 evt, status, queueCur, cfgDevice, worker, ipc, authVars>>

IpcPost ==
  /\ ipc
  /\ \E input \in IpcInputs : Post("ipc", "IpcInput", input)
  /\ UNCHANGED <<pc, running, devChan, lastDevice, pending, taken, calls,
                 evt, status, queueCur, cfgDevice, worker, ipc, authVars>>

QueuePost ==
  /\ Post("queue", "Queue", <<>>)
  /\ UNCHANGED <<pc, running, devChan, lastDevice, pending, taken, calls,
                 evt, status, queueCur, cfgDevice, worker, ipc, authVars>>

----------------------------------------------------------------------------
(* Device monitor and forwarding task *)

\* mutant: the monitor sends the name and forgets to remember what it observed
MonitorPollNoUpdate ==
  /\ Alive
  /\ \E current \in Observed :
       IF current # lastDevice
       THEN /\ TotalSent < MaxPosts
            /\ devChan' = Append(devChan, UnwrapOrDefault(current))
            /\ lastDevice' = lastDevice
       ELSE UNCHANGED <<devChan, lastDevice>>
  /\ UNCHANGED <<pc, running, hub, pending, posted, taken, calls,
                 evt, status, queueCur, cfgDevice, worker, ipc, authVars>>

\* one turn of the polling loop of start_device_monitor; a turn whose probe
\* panics changes nothing, like a turn that observes the last value again
MonitorPoll ==
  /\ Alive
  /\ \E current \in Observed :
       IF current # lastDevice
       THEN /\ TotalSent < MaxPosts
            /\ devChan' = Append(devChan, UnwrapOrDefault(current))
            /\ lastDevice' = current
       ELSE UNCHANGED <<devChan, lastDevice>>
  /\ UNCHANGED <<pc, running, hub, pending, posted, taken, calls,
                 evt, status, queueCur, cfgDevice, worker, ipc, authVars>>

\* mutant: the forwarding task sends every device name twice
ForwardDeviceChangeTwice ==
  /\ Alive
  /\ devChan # <<>>
  /\ devChan' = Tail(devChan)
  /\ LET e == Event("AudioDeviceChanged", <<Head(devChan)>>, "device", posted["device"] + 1)
     IN hub' = hub \o <<e, e>>
  /\ posted' = [posted EXCEPT !["device"] = @ + 1]
  /\ UNCHANGED <<pc, running, lastDevice, pending, taken, calls,
                 evt, status, queueCur, cfgDevice, worker, ipc, authVars>>

\* one turn of the forwarding task spawned by Application::new
ForwardDeviceChange ==
  /\ Alive
  /\ devChan # <<>>
  /\ devChan' = Tail(devChan)
  /\ hub' = Append(hub, Event("AudioDeviceChanged", <<Head(devChan)>>, "device",
                              posted["device"] + 1))
  /\ posted' = [posted EXCEPT !["device"] = @ + 1]
  /\ UNCHANGED <<pc, running, lastDevice, pending, taken, calls,
                 evt, status, queueCur, cfgDevice, worker, ipc, authVars>>

----------------------------------------------------------------------------
(* Signals *)

\* a SIGTERM or SIGHUP is delivered: signal_hook raises the signal's flag
SignalArrive ==
  /\ Alive
  /\ \E s \in SignalKinds : s \notin pending /\ pending' = pending \cup {s}
  /\ UNCHANGED <<pc, running, hub, devChan, lastDevice, posted, taken, calls,
                 evt, status, queueCur, cfgDevice, worker, ipc, authVars>>

----------------------------------------------------------------------------
(* Application::run: the calls each handler makes, in source order *)

UpdateStatus(state) == Call("spotify.update_status", state, "", 0, FALSE)
Publish(state, cur) == Call("ipc.publish", state, UnwrapOrDefault(cur), 0, cur # None)
QueueNext == Call("queue.next", "", "", 0, FALSE)
QueueHandleEvent == Call("queue.handle_event", "", "", 0, FALSE)
StartWorker(ok) == Call("spotify.start_worker", "", "", 0, ok)
CmdHandle(cmd) == Call("cmd.handle", cmd, "", 0, FALSE)
Pause == Call("spotify.pause", "", "", 0, FALSE)
Sleep(ms) == Call("thread.sleep", "", "", ms, FALSE)
SetBackendDevice(device) ==
  Call("cfg.set_backend_device", UnwrapOrDefault(device), "", 0, device # None)
Load(track, play, pos) == Call("spotify.load", track, "", pos, play)
LogError(msg) == Call("log.error", msg, "", 0, FALSE)
CursiveStep == Call("cursive.step", "", "", 0, FALSE)
SignalsPending == Call("signals.pending", "", "", 0, FALSE)
GetCurrentProgress(ms) == Call("spotify.get_current_progress", "", "", ms, FALSE)

\* signals.pending(): the raised flags, in the order of the signal numbers
PendingSeq(flags) ==
  (IF "SIGHUP" \in flags THEN <<"SIGHUP">> ELSE <<>>)
  \o (IF "SIGTERM" \in flags THEN <<"SIGTERM">> ELSE <<>>)

\* mutant: only SIGTERM makes the loop quit
RECURSIVE SignalCallsTermOnly(_)
SignalCallsTermOnly(sigs) ==
  IF sigs = <<>> THEN <<>>
  ELSE (IF Head(sigs) = "SIGTERM" THEN <<CmdHandle("Quit")>> ELSE <<>>)
       \o SignalCallsTermOnly(Tail(sigs))

\* lines 305-312: the poll of the pending signals
RECURSIVE SignalCalls(_)
SignalCalls(sigs) ==
  IF sigs = <<>> THEN <<>>
  ELSE (IF Head(sigs) = "SIGTERM" \/ Head(sigs) = "SIGHUP"
        THEN <<CmdHandle("Quit")>> ELSE <<>>) \o SignalCalls(Tail(sigs))

\* mutant: the state is published before the status is updated
PlayerCallsPublishFirst(state, hasIpc, cur) ==
  (IF hasIpc THEN <<Publish(state, cur)>> ELSE <<>>)
  \o <<UpdateStatus(state)>>
  \o (IF state = "FinishedTrack" THEN <<QueueNext>> ELSE <<>>)

\* mutant: a Stopped state advances the queue too
PlayerCallsAdvanceOnStopped(state, hasIpc, cur) ==
  <<UpdateStatus(state)>>
  \o (IF hasIpc THEN <<Publish(state, cur)>> ELSE <<>>)
  \o (IF state = "FinishedTrack" \/ state = "Stopped" THEN <<QueueNext>> ELSE <<>>)

\* lines 315-327: Event::Player(state)
PlayerCalls(state, hasIpc, cur) ==
  <<UpdateStatus(state)>>
  \o (IF hasIpc THEN <<Publish(state, cur)>> ELSE <<>>)
  \o (IF state = "FinishedTrack" THEN <<QueueNext>> ELSE <<>>)

\* mutant: the Queue arm restarts the worker too
QueueCallsRestart == <<QueueHandleEvent, StartWorker(TRUE)>>

\* lines 328-330: Event::Queue(event)
QueueCalls == <<QueueHandleEvent>>

\* mutant: the test of the restart's result is inverted
SessionDiedCallsInverted(ok) ==
  <<StartWorker(ok)>> \o (IF ok THEN <<CmdHandle("Quit")>> ELSE <<>>)

\* lines 331-340: Event::SessionDied; ok is the result of start_worker
SessionDiedCalls(ok) ==
  <<StartWorker(ok)>> \o (IF ~ok THEN <<CmdHandle("Quit")>> ELSE <<>>)

\* mutant: the commands are handed over last first
IpcInputCallsReversed(input) ==
  LET r == Parse(input) IN
  IF r.ok THEN [i \in 1..Len(r.cmds) |-> CmdHandle(r.cmds[Len(r.cmds) + 1 - i])]
  ELSE <<LogError("Parsing error")>>

\* mutant: a parse error makes the loop quit
IpcInputCallsQuitOnError(input) ==
  LET r == Parse(input) IN
  IF r.ok THEN [i \in 1..Len(r.cmds) |-> CmdHandle(r.cmds[i])]
  ELSE <<LogError("Parsing error"), CmdHandle("Quit")>>

\* lines 341-351: Event::IpcInput(input)
IpcInputCalls(input) ==
  LET r == Parse(input) IN
  IF r.ok THEN [i \in 1..Len(r.cmds) |-> CmdHandle(r.cmds[i])]
  ELSE <<LogError("Parsing error")>>

\* lines 377-381: an empty name is the system default
DeviceOf(deviceName) == IF deviceName = "" THEN None ELSE Some(deviceName)

\* lines 353-403: Event::AudioDeviceChanged(device_name); st is the status read at
\* line 357, cur the queue's current item, progress the value get_current_progress
\* returns, ok the result of start_worker
HotSwapCalls(deviceName, st, cur, progress, ok) ==
  LET wasPlaying == st = "Playing"
      \* as_millis() as u32 leaves a progress below 2^32 ms as it is
      currentPosition == IF st = "Playing" \/ st = "Paused" THEN Some(progress) ELSE None
      device == DeviceOf(deviceName)
  IN (IF currentPosition # None THEN <<GetCurrentProgress(progress)>> ELSE <<>>)
     \o (IF wasPlaying THEN <<Pause, Sleep(100)>> ELSE <<>>)
     \o <<SetBackendDevice(device), StartWorker(ok)>>
     \o (IF ~ok THEN <<LogError("Failed to start new worker after device change")>>
         ELSE IF cur # None
              THEN (IF currentPosition # None
                    THEN <<Load(cur[1], FALSE, currentPosition[1])>>
                    ELSE <<Load(cur[1], FALSE, 0)>>)
              ELSE <<>>)

\* mutant: a failed restart quits, as the SessionDied arm does
HotSwapQuitOnFailure(deviceName, st, cur, progress, ok) ==
  HotSwapCalls(deviceName, st, cur, progress, ok)
  \o (IF ~ok THEN <<CmdHandle("Quit")>> ELSE <<>>)

\* mutant: the track is reloaded playing when it was playing before the swap
HotSwapAutoResume(deviceName, st, cur, progress, ok) ==
  LET cs == HotSwapCalls(deviceName, st, cur, progress, ok) IN
  [i \in 1..Len(cs) |->
     IF cs[i].op = "spotify.load" THEN [cs[i] EXCEPT !.f = (st = "Playing")] ELSE cs[i]]

\* mutant: the worker is restarted before the configuration is updated
HotSwapRestartFirst(deviceName, st, cur, progress, ok) ==
  LET cs == HotSwapCalls(deviceName, st, cur, progress, ok)
      i == FirstOp(cs, "cfg.set_backend_device")
  IN [k \in 1..Len(cs) |-> IF k = i THEN cs[i + 1] ELSE IF k = i + 1 THEN cs[i] ELSE cs[k]]

\* mutant: a failed restart is tried a second time
HotSwapRetry(deviceName, st, cur, progress, ok) ==
  HotSwapCalls(deviceName, st, cur, progress, ok)
  \o (IF ~ok THEN <<StartWorker(FALSE)>> ELSE <<>>)

\* mutant: a paused player is paused again before the swap
HotSwapPauseWhenPaused(deviceName, st, cur, progress, ok) ==
  LET cs == HotSwapCalls(deviceName, st, cur, progress, ok) IN
  IF st = "Paused" THEN <<cs[1], Pause, Sleep(100)>> \o Tail(cs) ELSE cs

\* mutant: the configuration is written only when the restart succeeded
HotSwapConfigOnSuccess(deviceName, st, cur, progress, ok) ==
  LET cs == HotSwapCalls(deviceName, st, cur, progress, ok) IN
  IF ok THEN cs ELSE SelectSeq(cs, LAMBDA c : c.op # "cfg.set_backend_device")

\* mutant: a track that was neither playing nor paused is not loaded again
HotSwapNoReloadWhenStopped(deviceName, st, cur, progress, ok) ==
  LET cs == HotSwapCalls(deviceName, st, cur, progress, ok) IN
  IF st \in {"Playing", "Paused"} THEN cs
  ELSE SelectSeq(cs, LAMBDA c : c.op # "spotify.load")

AudioDeviceChangedCalls(deviceName, st, cur, progress, ok) ==
  HotSwapCalls(deviceName, st, cur, progress, ok)

----------------------------------------------------------------------------
(* Application::run: the loop *)

\* mutant: the loop does not test is_running
LoopHeadNoCheck ==
  /\ pc = "head"
  /\ pc' = "step"
  /\ calls' = <<>>
  /\ evt' = NoEvent
  /\ UNCHANGED <<running, hub, devChan, lastDevice, pending, posted, taken,
                 status, queueCur, cfgDevice, worker, ipc, authVars>>

\* line 302: while self.cursive.is_running()
LoopHead ==
  /\ pc = "head"
  /\ pc' = IF running THEN "step" ELSE "done"
  /\ calls' = <<>>
  /\ evt' = NoEvent
  /\ UNCHANGED <<running, hub, devChan, lastDevice, pending, posted, taken,
                 status, queueCur, cfgDevice, worker, ipc, authVars>>

\* line 303: self.cursive.step(); a key bound to a command hands it to CommandManager
KeyCommands == {"Quit", "Play"}

UiStep ==
  /\ pc = "step"
  /\ \E key \in {"<none>"} \cup KeyCommands :
       Perform(<<CursiveStep>> \o (IF key = "<none>" THEN <<>> ELSE <<CmdHandle(key)>>))
  /\ pc' = "signals"
  /\ evt' = NoEvent
  /\ UNCHANGED <<hub, devChan, lastDevice, pending, posted, taken, ipc, authVars>>

\* lines 305-312
PollSignals ==
  /\ pc = "signals"
  /\ Perform(<<SignalsPending>> \o SignalCalls(PendingSeq(pending)))
  /\ pending' = {}
  /\ pc' = "drain"
  /\ evt' = NoEvent
  /\ UNCHANGED <<hub, devChan, lastDevice, posted, taken, ipc, authVars>>

\* line 313: the next event of msg_iter(), handed to its match arm
Take(kind) ==
  /\ pc = "drain"
  /\ hub # <<>>
  /\ Head(hub).kind = kind
  /\ hub' = Tail(hub)
  /\ evt' = Head(hub)
  /\ taken' = [taken EXCEPT ![Head(hub).prod] = @ + 1]
  /\ pc' = "drain"
  /\ UNCHANGED <<devChan, lastDevice, pending, posted, ipc, authVars>>

DispatchPlayer ==
  /\ Take("Player")
  /\ Perform(PlayerCalls(Head(hub).arg[1], ipc, queueCur))

DispatchQueue ==
  /\ Take("Queue")
  /\ Perform(QueueCalls)

DispatchSessionDied ==
  /\ Take("SessionDied")
  /\ \E ok \in BOOLEAN :
       Perform(SessionDiedCalls(ok))

DispatchIpcInput ==
  /\ Take("IpcInput")
  /\ Perform(IpcInputCalls(Head(hub).arg))

\* mutant: a failed restart leaves the drain (break instead of continue)
DispatchAudioDeviceChangedBreak ==
  /\ pc = "drain"
  /\ hub # <<>>
  /\ Head(hub).kind = "AudioDeviceChanged"
  /\ hub' = Tail(hub)
  /\ evt' = Head(hub)
  /\ taken' = [taken EXCEPT ![Head(hub).prod] = @ + 1]
  /\ \E progress \in Positions, ok \in BOOLEAN :
       /\ Perform(AudioDeviceChangedCalls(Head(hub).arg[1], status, queueCur, progress, ok))
       /\ pc' = IF ok THEN "drain" ELSE "head"
  /\ UNCHANGED <<devChan, lastDevice, pending, posted, ipc, authVars>>

DispatchAudioDeviceChanged ==
  /\ Take("AudioDeviceChanged")
  /\ \E progress \in Positions, ok \in BOOLEAN :
       Perform(AudioDeviceChangedCalls(Head(hub).arg[1], status, queueCur, progress, ok))

\* mutant: the drain also ends when the loop was told to quit
DrainEndOnQuit ==
  /\ pc = "drain"
  /\ hub = <<>> \/ ~running
  /\ pc' = "head"
  /\ calls' = <<>>
  /\ evt' = NoEvent
  /\ UNCHANGED <<running, hub, devChan, lastDevice, pending, posted, taken,
                 status, queueCur, cfgDevice, worker, ipc, authVars>>

\* line 313: msg_iter() is exhausted, back to the loop condition
DrainEnd ==
  /\ pc = "drain"
  /\ hub = <<>>
  /\ pc' = "head"
  /\ calls' = <<>>
  /\ evt' = NoEvent
  /\ UNCHANGED <<running, hub, devChan, lastDevice, pending, posted, taken,
                 status, queueCur, cfgDevice, worker, ipc, authVars>>

----------------------------------------------------------------------------
(* src/src/authentication.rs: values *)

Ok(c) == [ok |-> TRUE, val |-> c, msg |-> ""]
Err(m, novalue) == [ok |-> FALSE, val |-> novalue, msg |-> m]

\* credentials: where they came from and in which interactive attempt
Cred(src, n) == [src |-> src, n |-> n]
NoCred == Cred("<none>", 0)
CachedCred == Cred("cache", 0)

\* ports find_free_port can be given by the system
Ports == {49152, 49153}

\* format!("http://127.0.0.1:{auth_port}/login")
RedirectUri(port) == [scheme |-> "http", host |-> "127.0.0.1", port |-> Some(port),
                      path |-> "/login"]

\* the second token of the request lines a client can send
Paths == {"/login?code=ABC123&state=xyz", "/login?state=xyz",
          "/login?state=xyz&code=B", "/login?code=A&code=B", "/login", ":x"}

\* request lines, split at white space
RequestLines == {<<>>, <<"GET">>} \cup {<<"GET", p, "HTTP/1.1">> : p \in Paths}

\* connections the listener can accept: whether read_line succeeds, and the line
Connections ==
  {[readOk |-> FALSE, line |-> <<>>]} \cup {[readOk |-> TRUE, line |-> l] : l \in RequestLines}

\* Url::parse of "http://localhost" followed by the path: ":x" is no port number
UrlParses(path) == path # ":x"

\* url.query_pairs()
QueryPairs(path) ==
  CASE path = "/login?code=ABC123&state=xyz" -> <<<<"code", "ABC123">>, <<"state", "xyz">>>>
    [] path = "/login?state=xyz" -> <<<<"state", "xyz">>>>
    [] path = "/login?state=xyz&code=B" -> <<<<"state", "xyz">>, <<"code", "B">>>>
    [] path = "/login?code=A&code=B" -> <<<<"code", "A">>, <<"code", "B">>>>
    [] OTHER -> <<>>

Message == "Authorization successful! You can close this tab and return to ncspot."

\* the channel of lines 176-184: created or not, the sender alive or dropped, the
\* values sent and not yet received
NoChannel == [made |-> FALSE, sender |-> FALSE, msgs |-> <<>>]

----------------------------------------------------------------------------
(* src/src/authentication.rs: the calls *)

CacheCredentials(found) == Call("cache.credentials", "", "", 0, found)
TestCredentials(c, ok) == Call("Spotify::test_credentials", c.src, "", c.n, ok)
Eprintln(msg) == Call("eprintln", msg, "", 0, FALSE)
Println(msg) == Call("println", msg, "", 0, FALSE)
FindFreePort(port, ok) == Call("find_free_port", "127.0.0.1", "", port, ok)
OpenBrowser == Call("open::that_in_background", "", "", 0, FALSE)
Bind(port, ok) == Call("TcpListener::bind", "127.0.0.1", "", port, ok)
Accept == Call("listener.incoming.next", "", "", 0, FALSE)
ReadLine(ok) == Call("reader.read_line", "", "", 0, ok)
WriteAll(statusLine, body) ==
  Call("stream.write_all", statusLine, body, Len(body), FALSE)
DropStream == Call("drop(stream)", "", "", 0, FALSE)
Channel == Call("mpsc::channel", "", "", 0, FALSE)
Spawn == Call("thread::spawn", "", "", 0, FALSE)
ExchangeCode(code, ok) == Call("exchange_code", code, "", 0, ok)
Send == Call("tx.send", "", "", 0, FALSE)
Recv(ok) == Call("rx.recv", "", "", 0, ok)
GetAccessToken(ok) == Call("oauth_client.get_access_token", "", "", 0, ok)

----------------------------------------------------------------------------
(* src/src/authentication.rs: the functions *)

\* lines 72-87: the match on cache.credentials()
FromCache(cached) ==
  IF cached # None THEN [apc |-> "test", cred |-> cached]
  ELSE [apc |-> "prompt", cred |-> None]

\* mutant: the credentials are returned whatever the test said
AfterTestAcceptAll(ok, error) == [apc |-> "done", promptMsg |-> None]

\* lines 89-92: the while let Err(error) = test_credentials(...) loop
AfterTest(ok, error) ==
  IF ok THEN [apc |-> "done", promptMsg |-> None]
  ELSE [apc |-> "prompt", promptMsg |-> Some(error)]

\* mutant: an interactive attempt that failed is followed by another one
PromptReturnRetry(r) ==
  IF r.ok THEN [apc |-> "test", cred |-> Some(r.val), aresult |-> None, promptMsg |-> None]
  ELSE [apc |-> "prompt", cred |-> cred, aresult |-> None, promptMsg |-> Some(r.msg)]

\* lines 84 and 91: credentials_prompt(...)? hands an Err to the caller of
\* get_credentials and an Ok value to the local credentials
PromptReturn(r) ==
  IF r.ok THEN [apc |-> "test", cred |-> Some(r.val), aresult |-> None, promptMsg |-> None]
  ELSE [apc |-> "done", cred |-> cred, aresult |-> Some(Err(r.msg, NoCred)),
        promptMsg |-> None]

\* mutant: the test of the client secret is inverted
CreateCredentialsInverted(sec) == IF sec = None THEN "with_secret" ELSE "pkce"

\* lines 115-121: the flow create_credentials runs
CreateCredentials(sec) == IF sec # None THEN "with_secret" ELSE "pkce"

\* mutant: a redirect without a code gives the empty code
GetCodeFromUrlEmptyCode(path) ==
  IF ~UrlParses(path) THEN Err("Failed to parse URL", "")
  ELSE LET q == QueryPairs(path)
           at == {i \in 1..Len(q) : q[i][1] = "code"}
       IN IF at = {} THEN Ok("")
          ELSE Ok(q[CHOOSE i \in at : \A j \in at : i <= j][2])

\* lines 193-199: the value of the first query pair whose key is "code"
GetCodeFromUrl(path) ==
  IF ~UrlParses(path) THEN Err("Failed to parse URL", "")
  ELSE LET q == QueryPairs(path)
           at == {i \in 1..Len(q) : q[i][1] = "code"}
       IN IF at = {} THEN Err("No authorization code found in URL", "")
          ELSE Ok(q[CHOOSE i \in at : \A j \in at : i <= j][2])

\* mutant: the listener's port is a fixed one, not the port of the redirect URI
GetSocketAddressFixedPort(uri) ==
  IF uri.scheme # "http" \/ uri.port = None THEN None ELSE Some(49152)

\* lines 202-208
GetSocketAddress(uri) ==
  IF uri.scheme # "http" \/ uri.port = None THEN None ELSE uri.port

\* mutant: the listener closes the connection without a reply
GetAuthcodeNoReply(c) ==
  IF ~c.readOk
  THEN [calls |-> <<Accept, ReadLine(FALSE), DropStream>>,
        result |-> Err("Failed to read request", "")]
  ELSE IF Len(c.line) < 2
  THEN [calls |-> <<Accept, ReadLine(TRUE), DropStream>>,
        result |-> Err("Failed to parse request", "")]
  ELSE [calls |-> <<Accept, ReadLine(TRUE), DropStream>>,
        result |-> GetCodeFromUrl(c.line[2])]

\* lines 220-248: get_authcode_from_redirect once the listener is bound, for the
\* connection c it accepts: the calls it makes and what it returns
GetAuthcodeFromRedirect(c) ==
  IF ~c.readOk
  THEN [calls |-> <<Accept, ReadLine(FALSE), DropStream>>,
        result |-> Err("Failed to read request", "")]
  ELSE IF Len(c.line) < 2
  THEN [calls |-> <<Accept, ReadLine(TRUE), DropStream>>,
        result |-> Err("Failed to parse request", "")]
  ELSE LET code == GetCodeFromUrl(c.line[2]) IN
       IF ~code.ok
       THEN [calls |-> <<Accept, ReadLine(TRUE), DropStream>>, result |-> code]
       ELSE [calls |-> <<Accept, ReadLine(TRUE), WriteAll("HTTP/1.1 200 OK", Message),
                         DropStream>>,
             result |-> code]

----------------------------------------------------------------------------
(* src/src/authentication.rs: get_credentials, step by step *)

runVars == <<pc, running, hub, devChan, lastDevice, pending, posted, taken,
             calls, evt, status, queueCur, cfgDevice, worker, ipc>>

\* mutant: the redirect port is looked for before the cache is read
GetCredentialsPortFirst ==
  /\ apc = "start"
  /\ LET n == FromCache(cache) IN
       /\ apc' = n.apc
       /\ cred' = n.cred
  /\ alog' = <<FindFreePort(49152, TRUE), CacheCredentials(cache # None)>>
  /\ UNCHANGED <<secret, cache, promptMsg, aresult, attempts, validations, lastTest,
                 redirectUri, conn, xcode, chan, xthread>>
  /\ UNCHANGED runVars

\* lines 72-87: the look into the cache
GetCredentials ==
  /\ apc = "start"
  /\ LET n == FromCache(cache) IN
       /\ apc' = n.apc
       /\ cred' = n.cred
  /\ alog' = <<CacheCredentials(cache # None)>>
  /\ UNCHANGED <<secret, cache, promptMsg, aresult, attempts, validations, lastTest,
                 redirectUri, conn, xcode, chan, xthread>>
  /\ UNCHANGED runVars

\* lines 89-92: one test of the while loop; ok is what test_credentials answers
TestCredentialsStep ==
  /\ apc = "test"
  /\ \E ok \in BOOLEAN :
       LET n == AfterTest(ok, "error") IN
         /\ apc' = n.apc
         /\ promptMsg' = n.promptMsg
         /\ aresult' = IF n.apc = "done" THEN Some(Ok(cred[1])) ELSE None
         /\ lastTest' = Some([cred |-> cred[1], ok |-> ok])
         /\ alog' = Append(alog, TestCredentials(cred[1], ok))
  /\ validations' = validations + 1
  /\ UNCHANGED <<secret, cache, cred, attempts, redirectUri, conn, xcode, chan, xthread>>
  /\ UNCHANGED runVars

\* lines 95-122: credentials_prompt and the choice create_credentials makes
CredentialsPrompt ==
  /\ apc = "prompt"
  /\ attempts < MaxAttempts
  /\ attempts' = attempts + 1
  /\ alog' = (IF promptMsg # None THEN <<Eprintln("Connection error")>> ELSE <<>>)
             \o <<Println("To login you need to perform OAuth2 authorization")>>
  /\ apc' = CreateCredentials(secret)
  /\ promptMsg' = None
  /\ redirectUri' = None
  /\ conn' = None
  /\ xcode' = None
  /\ chan' = NoChannel
  /\ xthread' = "none"
  /\ UNCHANGED <<secret, cache, cred, aresult, validations, lastTest>>
  /\ UNCHANGED runVars

\* the value create_credentials returns reaches get_credentials
Return(r) ==
  LET n == PromptReturn(r) IN
    /\ apc' = n.apc
    /\ cred' = n.cred
    /\ aresult' = n.aresult
    /\ promptMsg' = n.promptMsg

\* get_client_redirect_uri panics when find_free_port fails
Panic ==
  /\ apc' = "panicked"
  /\ alog' = Append(alog, FindFreePort(0, FALSE))
  /\ UNCHANGED <<cred, aresult, promptMsg, redirectUri>>

\* lines 125-137: the PKCE flow, run by librespot_oauth
CreateCredentialsPkce ==
  /\ apc = "pkce"
  /\ \/ Panic
     \/ \E port \in Ports, outcome \in {"build failed", "no token", "token"} :
          /\ redirectUri' = Some(RedirectUri(port))
          /\ alog' = alog \o <<FindFreePort(port, TRUE)>>
                     \o (IF outcome = "build failed" THEN <<>>
                         ELSE <<GetAccessToken(outcome = "token")>>)
          /\ Return(IF outcome = "token" THEN Ok(Cred("pkce", attempts))
                    ELSE Err(outcome, NoCred))
  /\ UNCHANGED <<secret, cache, attempts, validations, lastTest, conn, xcode, chan,
                 xthread>>
  /\ UNCHANGED runVars

\* lines 140-172 and 211-216: the Authorization-Code flow up to the bound listener
CreateCredentialsWithSecret ==
  /\ apc = "with_secret"
  /\ \/ Panic
     \/ \E port \in Ports, bound \in BOOLEAN :
          LET uri == RedirectUri(port)
              address == GetSocketAddress(uri)
              before == alog \o <<FindFreePort(port, TRUE), Println("Browse to"),
                                  OpenBrowser>>
          IN /\ redirectUri' = Some(uri)
             /\ IF address = None
                THEN /\ alog' = before
                     /\ Return(Err("Could not determine socket address from redirect URI",
                                   NoCred))
                ELSE IF ~bound
                THEN /\ alog' = Append(before, Bind(address[1], FALSE))
                     /\ Return(Err("Failed to bind listener", NoCred))
                ELSE /\ alog' = Append(before, Bind(address[1], TRUE))
                     /\ apc' = "accept"
                     /\ UNCHANGED <<cred, aresult, promptMsg>>
  /\ UNCHANGED <<secret, cache, attempts, validations, lastTest, conn, xcode, chan,
                 xthread>>
  /\ UNCHANGED runVars

\* lines 220-248 and 172-182: the listener serves the connection it accepts; with
\* a code the flow makes the channel and spawns the exchange thread
AcceptRedirect ==
  /\ apc = "accept"
  /\ \E c \in Connections :
       LET g == GetAuthcodeFromRedirect(c) IN
         /\ conn' = Some(c)
         /\ IF g.result.ok
            THEN /\ alog' = alog \o g.calls \o <<Channel, Spawn>>
                 /\ xcode' = Some(g.result.val)
                 /\ chan' = [made |-> TRUE, sender |-> TRUE, msgs |-> <<>>]
                 /\ xthread' = "running"
                 /\ apc' = "recv"
                 /\ UNCHANGED <<cred, aresult, promptMsg>>
            ELSE /\ alog' = alog \o g.calls
                 /\ Return(Err(g.result.msg, NoCred))
                 /\ UNCHANGED <<xcode, chan, xthread>>
  /\ UNCHANGED <<secret, cache, attempts, validations, lastTest, redirectUri>>
  /\ UNCHANGED runVars

\* mutant: the exchange thread sends its response twice
ExchangeThreadSendTwice ==
  /\ xthread = "running"
  /\ \E outcome \in {"token", "refused", "panic"} :
       IF outcome = "panic"
       THEN /\ chan' = [chan EXCEPT !.sender = FALSE]
            /\ UNCHANGED alog
       ELSE LET resp == IF outcome = "token" THEN Ok(Cred("secret", attempts))
                        ELSE Err(outcome, NoCred)
            IN /\ chan' = [chan EXCEPT !.sender = FALSE, !.msgs = @ \o <<resp, resp>>]
               /\ alog' = alog \o <<ExchangeCode(xcode[1], outcome = "token"), Send, Send>>
  /\ xthread' = "done"
  /\ UNCHANGED <<apc, secret, cache, cred, promptMsg, aresult, attempts, validations,
                 lastTest, redirectUri, conn, xcode>>
  /\ UNCHANGED runVars

\* lines 178-182: the exchange thread; it sends the response, or panics before
\* it has one and drops the sender
ExchangeThread ==
  /\ xthread = "running"
  /\ \E outcome \in {"token", "refused", "panic"} :
       IF outcome = "panic"
       THEN /\ chan' = [chan EXCEPT !.sender = FALSE]
            /\ UNCHANGED alog
       ELSE /\ chan' = [chan EXCEPT !.sender = FALSE,
                                    !.msgs = Append(@, IF outcome = "token"
                                                       THEN Ok(Cred("secret", attempts))
                                                       ELSE Err(outcome, NoCred))]
            /\ alog' = alog \o <<ExchangeCode(xcode[1], outcome = "token"), Send>>
  /\ xthread' = "done"
  /\ UNCHANGED <<apc, secret, cache, cred, promptMsg, aresult, attempts, validations,
                 lastTest, redirectUri, conn, xcode>>
  /\ UNCHANGED runVars

\* lines 184-189: rx.recv() returns once a response was sent or the sender is gone
RecvToken ==
  /\ apc = "recv"
  /\ chan.msgs # <<>> \/ ~chan.sender
  /\ IF chan.msgs # <<>>
     THEN /\ chan' = [chan EXCEPT !.msgs = Tail(@)]
          /\ alog' = Append(alog, Recv(TRUE))
          /\ Return(IF Head(chan.msgs).ok THEN Head(chan.msgs)
                    ELSE Err("Token exchange failed", NoCred))
     ELSE /\ alog' = Append(alog, Recv(FALSE))
          /\ Return(Err("Failed to receive token response", NoCred))
          /\ UNCHANGED chan
  /\ UNCHANGED <<secret, cache, attempts, validations, lastTest, redirectUri, conn,
                 xcode, xthread>>
  /\ UNCHANGED runVars

\* PlaybackState, as saved in the configuration's state
SavedStates == {"Playing", "Paused", "Stopped", "Default"}

ConfigurationState(playbackState, progress) ==
  Call("configuration.state", playbackState, "", progress, FALSE)
UpdateTrack == Call("spotify.update_track", "", "", 0, FALSE)
Stop == Call("spotify.stop", "", "", 0, FALSE)

\* mutant: a track saved as playing is not paused after the load
RestoreCallsResume(cur, playbackState, progress) ==
  <<ConfigurationState(playbackState, progress)>>
  \o (IF cur = None THEN <<>>
      ELSE <<Load(cur[1], playbackState = "Playing", progress), UpdateTrack>>
           \o (IF playbackState = "Stopped" THEN <<Stop>>
               ELSE IF playbackState = "Playing" THEN <<>> ELSE <<Pause>>))

\* Application::new, lines 165-184: the last played track is loaded again; cur
\* is queue.get_current(), progress is queue_state.track_progress in ms
\* (as_millis() as u32 leaves a progress below 2^32 ms as it is)
RestoreCalls(cur, playbackState, progress) ==
  <<ConfigurationState(playbackState, progress)>>
  \o (IF cur = None THEN <<>>
      ELSE <<Load(cur[1], playbackState = "Playing", progress), UpdateTrack,
             IF playbackState = "Stopped" THEN Stop ELSE Pause>>)

\* Application::new after line 100 returned credentials: the worker is started,
\* the queue is built from the saved state, and lines 165-184 run
Restore ==
  /\ pc = "new"
  /\ apc = "done"
  /\ aresult # None
  /\ aresult[1].ok
  /\ \E cur \in {None} \cup {Some(t) : t \in Tracks}, playbackState \in SavedStates,
        progress \in Positions :
       LET cs == RestoreCalls(cur, playbackState, progress)
           started == [CoState EXCEPT !.queueCur = cur,
                                      !.worker = [active |-> TRUE, device |-> cfgDevice,
                                                  loaded |-> NoTrack]]
           st == ApplyAll(started, cs)
       IN /\ queueCur' = st.queueCur
          /\ worker' = st.worker
          /\ status' = st.status
          /\ calls' = cs
  /\ pc' = "restored"
  /\ UNCHANGED <<running, hub, devChan, lastDevice, pending, posted, taken, evt,
                 cfgDevice, ipc, authVars>>

\* the state of the run loop's variables while Application::new is in line 100
NotBuilt ==
  /\ pc = "new"
  /\ running = TRUE
  /\ hub = <<>>
  /\ devChan = <<>>
  /\ lastDevice = None
  /\ pending = {}
  /\ posted = [p \in Producers |-> 0]
  /\ taken = [p \in Producers |-> 0]
  /\ calls = <<>>
  /\ evt = NoEvent
  /\ status = "Stopped"
  /\ queueCur = None
  /\ cfgDevice = None
  /\ worker = [active |-> FALSE, device |-> None, loaded |-> NoTrack]
  /\ ipc = FALSE

\* get_credentials has returned the cached credentials (line 100 is passed)
LoggedIn ==
  /\ apc = "done"
  /\ secret = None
  /\ cache = Some(CachedCred)
  /\ cred = Some(CachedCred)
  /\ promptMsg = None
  /\ aresult = Some(Ok(CachedCred))
  /\ attempts = 0
  /\ validations = 1
  /\ lastTest = Some([cred |-> CachedCred, ok |-> TRUE])
  /\ alog = <<CacheCredentials(TRUE), TestCredentials(CachedCred, TRUE)>>
  /\ redirectUri = None
  /\ conn = None
  /\ xcode = None
  /\ chan = NoChannel
  /\ xthread = "none"

InitAuth ==
  /\ NotBuilt
  /\ apc = "start"
  /\ secret \in {None, Some("s3cret")}
  /\ cache \in {None, Some(CachedCred)}
  /\ cred = None
  /\ promptMsg = None
  /\ aresult = None
  /\ attempts = 0
  /\ validations = 0
  /\ lastTest = None
  /\ alog = <<>>
  /\ redirectUri = None
  /\ conn = None
  /\ xcode = None
  /\ chan = NoChannel
  /\ xthread = "none"

NextAuth ==
  \/ GetCredentials
  \/ TestCredentialsStep
  \/ CredentialsPrompt
  \/ CreateCredentialsPkce
  \/ CreateCredentialsWithSecret
  \/ AcceptRedirect
  \/ ExchangeThread
  \/ RecvToken
  \/ Restore

SpecAuth == InitAuth /\ [][NextAuth]_vars

----------------------------------------------------------------------------
(* Specification *)

Init ==
  /\ pc = "head"
  /\ running = TRUE
  /\ hub = <<>>
  /\ devChan = <<>>
  /\ lastDevice \in {None, Some("Speakers")}
  /\ pending = {}
  /\ posted = [p \in Producers |-> 0]
  /\ taken = [p \in Producers |-> 0]
  /\ calls = <<>>
  /\ evt = NoEvent
  /\ status = "Stopped"
  /\ queueCur \in {None, Some("X")}
  /\ cfgDevice = Some("Speakers")
  /\ worker = [active |-> TRUE, device |-> cfgDevice,
               loaded |-> IF queueCur = None THEN NoTrack
                          ELSE [track |-> queueCur[1], pos |-> 0, play |-> FALSE]]
  /\ ipc \in BOOLEAN
  /\ LoggedIn

Next ==
  \/ WorkerPostPlayer
  \/ WorkerPostSessionDied
  \/ IpcPost
  \/ QueuePost
  \/ MonitorPoll
  \/ ForwardDeviceChange
  \/ SignalArrive
  \/ LoopHead
  \/ UiStep
  \/ PollSignals
  \/ DispatchPlayer
  \/ DispatchQueue
  \/ DispatchSessionDied
  \/ DispatchIpcInput
  \/ DispatchAudioDeviceChanged
  \/ DrainEnd

Spec == Init /\ [][Next]_vars

----------------------------------------------------------------------------
(* Properties *)

Quit == CmdHandle("Quit")

\* a step of the run loop that dispatched an event
DispatchStep == taken' # taken

\* the latest step failed: a worker restart failed or an error was reported
Failed == Has(calls, StartWorker(FALSE)) \/ CountOp(calls, "log.error") > 0

\* the events of producer p waiting in the hub
Queued(p) == SelectSeq(hub, LAMBDA e : e.prod = p)

\* C1: the run loop dispatches exactly the events posted, each once, and those of
\* one producer in the order it posted them: in every state the events of a
\* producer that were not yet dispatched wait in the hub, in post order, and
\* they are exactly those numbered after the ones dispatched.
C1_HubDelivery ==
  \A p \in Producers :
    /\ Len(Queued(p)) = posted[p] - taken[p]
    /\ \A i \in 1..Len(Queued(p)) : Queued(p)[i].seq = taken[p] + i

C1_Witness ==
  /\ taken["device"] = 1
  /\ taken["worker"] = 1
  /\ hub = <<>>

\* C2: the loop stops running only in a step that hands Quit to CommandManager,
\* and that step is the UI step, the signal poll, a SessionDied dispatch or an
\* IpcInput dispatch; run returns only from the loop head, with the flag cleared.
C2_QuitOnly ==
  [][/\ (running /\ ~running') =>
          /\ Has(calls', Quit)
          /\ evt'.kind \in {"<none>", "SessionDied", "IpcInput"}
     /\ (pc # "done" /\ pc' = "done") => (pc = "head" /\ ~running)]_vars

C2_Witness ==
  /\ pc = "done"
  /\ posted["device"] = 1
  /\ taken["device"] = 1

\* C3: the handler of a player-state event calls queue.next exactly once when
\* the state is FinishedTrack and never otherwise, within the drain.
C3_FinishedTrackAdvances ==
  evt.kind = "Player" =>
    /\ pc = "drain"
    /\ CountOp(calls, "queue.next") = (IF evt.arg[1] = "FinishedTrack" THEN 1 ELSE 0)

C3_Witness ==
  /\ evt.kind = "Player"
  /\ evt.arg[1] = "FinishedTrack"
  /\ Has(calls, QueueNext)
  /\ queueCur = Some("Y")

\* C4: the handler of SessionDied attempts one worker restart; it hands Quit to
\* CommandManager exactly when the attempt failed, and after a successful attempt
\* the running flag is what it was.
C4_SessionDied ==
  [][(DispatchStep /\ evt'.kind = "SessionDied") =>
        /\ CountOp(calls', "spotify.start_worker") = 1
        /\ calls'[1].op = "spotify.start_worker"
        /\ Has(calls', Quit) <=> ~calls'[1].f
        /\ calls'[1].f => running' = running
        /\ ~calls'[1].f => ~running']_vars

C4_Witness ==
  /\ evt.kind = "SessionDied"
  /\ calls = <<StartWorker(TRUE)>>
  /\ running

\* C5: an iteration is the UI step, then the signal poll, then the drain; the
\* poll hands one Quit to CommandManager for each pending signal, SIGTERM or
\* SIGHUP alike, and no event is dispatched before the poll is over.
C5_IterationOrder ==
  [][/\ pc' # pc => <<pc, pc'>> \in {<<"head", "step">>, <<"head", "done">>,
                                     <<"step", "signals">>, <<"signals", "drain">>,
                                     <<"drain", "head">>}
     /\ (pc = "step" /\ pc' = "signals") =>
          /\ calls'[1] = CursiveStep
          /\ taken' = taken
     /\ (pc = "signals" /\ pc' = "drain") =>
          /\ calls' = <<SignalsPending>> \o [i \in 1..Cardinality(pending) |-> Quit]
          /\ taken' = taken
          /\ hub' = hub
          /\ pending' = {}
     /\ DispatchStep => pc = "drain"]_vars

C5_Witness ==
  /\ pc = "drain"
  /\ calls = <<SignalsPending, Quit>>
  /\ hub # <<>>
  /\ taken = [p \in Producers |-> 0]

\* C6: a poll with pending signals, one or two, clears the running flag and
\* changes nothing else of the application's state; the flag stays cleared and
\* the next test of the loop condition ends the loop.
C6_IdempotentShutdown ==
  [][/\ (pc = "signals" /\ pc' = "drain" /\ pending # {}) =>
          /\ ~running'
          /\ UNCHANGED <<status, queueCur, cfgDevice, worker>>
     /\ ~running => ~running'
     /\ (pc = "head" /\ ~running /\ pc' # pc) => pc' = "done"]_vars

C6_Witness ==
  /\ calls = <<SignalsPending, Quit, Quit>>
  /\ ~running
  /\ pc = "drain"

\* C7: a device-change event for device D dispatched while the status is Playing
\* or Paused and the queue has a current track, with a successful restart, ends
\* with the configuration naming D, an active worker started on D, and the track
\* loaded at the position read, not playing.
C7_HotSwapEndState ==
  [][(/\ DispatchStep
      /\ evt'.kind = "AudioDeviceChanged"
      /\ status \in {"Playing", "Paused"}
      /\ queueCur # None
      /\ Has(calls', StartWorker(TRUE))) =>
        /\ cfgDevice' = DeviceOf(evt'.arg[1])
        /\ worker'.active
        /\ worker'.device = DeviceOf(evt'.arg[1])
        /\ \E p \in Positions :
             /\ Has(calls', GetCurrentProgress(p))
             /\ worker'.loaded = [track |-> queueCur[1], pos |-> p, play |-> FALSE]
             /\ calls'[Len(calls')] = Load(queueCur[1], FALSE, p)
             /\ calls'[Len(calls') - 1] = StartWorker(TRUE)]_vars

C7_Witness ==
  /\ evt.kind = "AudioDeviceChanged"
  /\ evt.arg[1] = "Headphones"
  /\ status = "Playing"
  /\ cfgDevice = Some("Headphones")
  /\ worker = [active |-> TRUE, device |-> Some("Headphones"),
               loaded |-> [track |-> "X", pos |-> 30000, play |-> FALSE]]

\* C8: the handler of a device-change event writes the event's device to the
\* configuration before its first attempt to restart the worker, so once a
\* restart was attempted the configuration names the new device.
C8_ConfigBeforeRestart ==
  evt.kind = "AudioDeviceChanged" =>
    LET i == FirstOp(calls, "cfg.set_backend_device")
        j == FirstOp(calls, "spotify.start_worker")
    IN /\ i > 0
       /\ j > i
       /\ calls[i] = SetBackendDevice(DeviceOf(evt.arg[1]))
       /\ cfgDevice = DeviceOf(evt.arg[1])

C8_Witness ==
  /\ evt.kind = "AudioDeviceChanged"
  /\ evt.arg[1] = "Headphones"
  /\ Has(calls, StartWorker(FALSE))
  /\ cfgDevice = Some("Headphones")
  /\ worker.device = Some("Speakers")

\* C9: when the restart fails in the handler of a device-change event, it was
\* attempted once, no track is loaded, no Quit is handed to CommandManager, the
\* running flag is what it was and the drain goes on with the rest of the hub.
C9_FailedRestartAborts ==
  [][(/\ DispatchStep
      /\ evt'.kind = "AudioDeviceChanged"
      /\ Has(calls', StartWorker(FALSE))) =>
        /\ CountOp(calls', "spotify.start_worker") = 1
        /\ CountOp(calls', "spotify.load") = 0
        /\ worker'.loaded = NoTrack
        /\ ~Has(calls', Quit)
        /\ running' = running
        /\ pc' = "drain"
        /\ hub' = Tail(hub)]_vars

C9_Witness ==
  /\ evt.kind = "AudioDeviceChanged"
  /\ Has(calls, StartWorker(FALSE))
  /\ running
  /\ queueCur = Some("X")
  /\ hub # <<>>

\* C10: every dispatch, failed or not, removes exactly the head of the hub and
\* stays in the drain, and the drain ends only when the hub is empty: the events
\* queued behind a failing one are dispatched in the same drain, in order.
C10_FailureKeepsDrain ==
  [][/\ DispatchStep =>
          /\ hub # <<>>
          /\ evt' = Head(hub)
          /\ hub' = Tail(hub)
          /\ pc' = "drain"
     /\ (pc = "drain" /\ pc' # "drain") => (hub = <<>> /\ pc' = "head")]_vars

C10_Witness ==
  /\ pc = "drain"
  /\ evt.kind = "IpcInput"
  /\ Failed
  /\ hub # <<>>

\* C11: a step of the run loop restarts the worker at most once, and only a step
\* that dispatches a SessionDied or a device-change event does; after the restart
\* the one worker there is is the new instance, started on the configured
\* device, when the restart succeeded, and no instance is active when it failed.
C11_SingleWorker ==
  /\ CountOp(calls, "spotify.start_worker") <= 1
  /\ CountOp(calls, "spotify.start_worker") = 1 =>
       /\ pc = "drain"
       /\ evt.kind \in {"SessionDied", "AudioDeviceChanged"}
       /\ worker.active <=> Has(calls, StartWorker(TRUE))
       /\ worker.active => worker.device = cfgDevice

C11_Witness ==
  /\ evt.kind = "SessionDied"
  /\ Has(calls, StartWorker(TRUE))
  /\ taken["device"] = 1
  /\ worker.active
  /\ worker.device = Some("Headphones")

\* C12: the dispatch of a received line that parses to no command hands nothing
\* to CommandManager and reports no error; the dispatch of a line that fails to
\* parse hands nothing to CommandManager; both leave the running flag and the
\* rest of the application's state as they were, and the drain goes on.
C12_EmptyOrBadInput ==
  [][(/\ DispatchStep
      /\ evt'.kind = "IpcInput"
      /\ (~Parse(evt'.arg).ok \/ Parse(evt'.arg).cmds = <<>>)) =>
        /\ CountOp(calls', "cmd.handle") = 0
        /\ Parse(evt'.arg).ok => calls' = <<>>
        /\ UNCHANGED <<running, status, queueCur, cfgDevice, worker, ipc>>
        /\ pc' = "drain"]_vars

C12_Witness ==
  /\ evt.kind = "IpcInput"
  /\ evt.arg = <<"play", ";", "bogus">>
  /\ calls = <<LogError("Parsing error")>>
  /\ taken["ipc"] = 2
  /\ running

\* the calls that bind a local listener or open the browser
ListenerOps == {"find_free_port", "TcpListener::bind", "listener.incoming.next",
                "oauth_client.get_access_token", "open::that_in_background"}

\* C13: when the cache holds credentials and their test succeeds, get_credentials
\* returns them after the cache look-up and that one test: no interactive attempt,
\* no call of find_free_port, no listener bound, no browser opened.
C13_ValidCacheNoListener ==
  (cache # None /\ lastTest = Some([cred |-> cache[1], ok |-> TRUE])) =>
    /\ apc = "done"
    /\ aresult = Some(Ok(cache[1]))
    /\ attempts = 0
    /\ \A i \in 1..Len(alog) : alog[i].op \notin ListenerOps
    /\ redirectUri = None
    /\ conn = None

C13_Witness ==
  /\ apc = "done"
  /\ aresult = Some(Ok(CachedCred))
  /\ alog = <<CacheCredentials(TRUE), TestCredentials(CachedCred, TRUE)>>
  /\ secret # None

\* interactive attempts made for the tests made: the cache saves the first attempt
AttemptsFor(tests) == tests - (IF cache # None THEN 1 ELSE 0)

\* C14: get_credentials returns Ok(c) only for the c it obtained last, the cached
\* value or the value of the latest interactive attempt, and only when the latest
\* test was of c and succeeded; a failed test is followed by one interactive
\* attempt, and the value that attempt gives is new and is tested in its turn.
C14_ValidatedLatest ==
  /\ (aresult # None /\ aresult[1].ok) =>
       /\ cred = Some(aresult[1].val)
       /\ lastTest = Some([cred |-> aresult[1].val, ok |-> TRUE])
       /\ aresult[1].val.n = attempts
       /\ attempts = AttemptsFor(validations)
  /\ apc = "prompt" => attempts = AttemptsFor(validations)
  /\ apc \in {"pkce", "with_secret", "accept", "recv"} =>
       attempts = AttemptsFor(validations) + 1
  /\ apc = "test" =>
       /\ attempts = AttemptsFor(validations) + 1
       /\ cred[1].n = attempts
       /\ lastTest # None => (~lastTest[1].ok /\ lastTest[1].cred # cred[1])

C14_Witness ==
  /\ apc = "done"
  /\ cache # None
  /\ validations = 3
  /\ attempts = 2
  /\ aresult = Some(Ok(Cred("secret", 2)))

\* the latest call of the interactive attempt is one that failed
AttemptFailed ==
  /\ attempts > 0
  /\ alog # <<>>
  /\ LET l == alog[Len(alog)] IN
       \/ l.op = "TcpListener::bind" /\ ~l.f
       \/ l = DropStream
       \/ l.op = "rx.recv" /\ ~l.f
       \/ l.op = "rx.recv" /\ Has(alog, Send) /\ ~alog[Len(alog) - 2].f
       \/ l.op = "oauth_client.get_access_token" /\ ~l.f
       \/ l.op = "find_free_port" /\ l.f

\* errors of the configuration: the redirect address, its port, the OAuth client
ConfigurationErrors == {"Could not determine socket address from redirect URI",
                        "Failed to bind listener", "build failed"}

\* C15 as stated: get_credentials goes on with another interactive attempt after
\* one that failed, so it returns an error only for an error of the configuration.
C15_Original ==
  (aresult # None /\ ~aresult[1].ok) => aresult[1].msg \in ConfigurationErrors

\* C15, amended: an interactive attempt that fails ends get_credentials, which
\* returns the error and starts no other attempt; only a failed test of the
\* credentials is printed to the console and followed by another attempt.
C15_FailureReturned ==
  /\ (AttemptFailed /\ apc # "panicked") =>
       /\ apc = "done"
       /\ aresult # None
       /\ ~aresult[1].ok
  /\ promptMsg # None => (apc = "prompt" /\ lastTest # None /\ ~lastTest[1].ok)
  /\ CountOp(alog, "eprintln") > 0 => (lastTest # None /\ attempts > 0)

C15_Witness ==
  /\ apc = "done"
  /\ aresult = Some(Err("No authorization code found in URL", NoCred))
  /\ attempts = 2
  /\ Has(alog, Eprintln("Connection error"))
  /\ AttemptFailed

\* the request of connection c names a URL that parses and has a code parameter
CarriesCode(c) ==
  /\ c.readOk
  /\ Len(c.line) >= 2
  /\ UrlParses(c.line[2])
  /\ \E i \in 1..Len(QueryPairs(c.line[2])) : QueryPairs(c.line[2])[i][1] = "code"

C17_Original ==
  conn # None =>
    /\ CountOp(alog, "listener.incoming.next") = 1
    /\ CountOp(alog, "reader.read_line") = 1
    /\ CountOp(alog, "stream.write_all") = 1
    /\ FirstOp(alog, "stream.write_all") < FirstOp(alog, "drop(stream)")

\* C17, amended: the listener accepts one connection and reads one line from it;
\* when the line names a URL with a code parameter it writes, once and before it
\* drops the connection, the 200 OK response whose content-length is the length
\* of the fixed body; a connection that gives no code is dropped without a reply.
C17_ReplyOnCode ==
  conn # None =>
    /\ CountOp(alog, "listener.incoming.next") = 1
    /\ CountOp(alog, "reader.read_line") = 1
    /\ CountOp(alog, "drop(stream)") = 1
    /\ FirstOp(alog, "listener.incoming.next") < FirstOp(alog, "reader.read_line")
    /\ FirstOp(alog, "reader.read_line") < FirstOp(alog, "drop(stream)")
    /\ CountOp(alog, "stream.write_all") = (IF CarriesCode(conn[1]) THEN 1 ELSE 0)
    /\ CarriesCode(conn[1]) =>
         LET w == FirstOp(alog, "stream.write_all") IN
           /\ FirstOp(alog, "reader.read_line") < w
           /\ w < FirstOp(alog, "drop(stream)")
           /\ alog[w].a = "HTTP/1.1 200 OK"
           /\ alog[w].b = Message
           /\ alog[w].n = Len(Message)

C17_Witness ==
  /\ conn # None
  /\ CarriesCode(conn[1])
  /\ CountOp(alog, "stream.write_all") = 1
  /\ apc = "recv"

\* C18: an interactive attempt runs the Authorization-Code flow when a client
\* secret is configured and the PKCE flow when none is, never both: the calls of
\* the one are made only with a secret, those of the other only without, and an
\* attempt that is over has chosen its redirect port once.
C18_FlowBySecret ==
  /\ apc \in {"with_secret", "accept", "recv"} => secret # None
  /\ apc = "pkce" => secret = None
  /\ (\E i \in 1..Len(alog) :
        alog[i].op \in {"open::that_in_background", "TcpListener::bind",
                        "mpsc::channel"}) =>
       /\ secret # None
       /\ CountOp(alog, "oauth_client.get_access_token") = 0
  /\ CountOp(alog, "oauth_client.get_access_token") > 0 =>
       /\ secret = None
       /\ CountOp(alog, "open::that_in_background") = 0
  /\ CountOp(alog, "find_free_port") <= 1
  /\ (attempts > 0 /\ apc \in {"test", "done", "panicked"}) =>
       CountOp(alog, "find_free_port") = 1

C18_Witness ==
  /\ secret = None
  /\ attempts = 2
  /\ apc = "done"
  /\ Has(alog, GetAccessToken(TRUE))
  /\ aresult # None
  /\ aresult[1].ok

\* C19: the dispatch of a player-state event first updates the status to the
\* event's state; with an IPC socket it then publishes, once, that state and the
\* item that was the queue's current one when the event was taken; without one
\* it publishes nothing; it reports no error and leaves the loop running.
C19_StatusThenPublish ==
  [][(DispatchStep /\ evt'.kind = "Player") =>
        /\ calls'[1] = UpdateStatus(evt'.arg[1])
        /\ status' = evt'.arg[1]
        /\ CountOp(calls', "ipc.publish") = (IF ipc THEN 1 ELSE 0)
        /\ ipc => calls'[2] = Publish(evt'.arg[1], queueCur)
        /\ CountOp(calls', "log.error") = 0
        /\ running' = running
        /\ pc' = "drain"]_vars

C19_Witness ==
  /\ evt.kind = "Player"
  /\ evt.arg[1] = "FinishedTrack"
  /\ ipc
  /\ calls = <<UpdateStatus("FinishedTrack"), Publish("FinishedTrack", Some("X")), QueueNext>>
  /\ queueCur = Some("Y")

\* C20: the step that dispatches a received line which parses to c1..cn hands
\* exactly c1..cn to CommandManager, in that order, and that step is one step
\* of the drain: every other event still waits in the hub.
C20_CommandsInOrder ==
  (evt.kind = "IpcInput" /\ Parse(evt.arg).ok) =>
    /\ pc = "drain"
    /\ Len(calls) = Len(Parse(evt.arg).cmds)
    /\ \A i \in 1..Len(calls) : calls[i] = CmdHandle(Parse(evt.arg).cmds[i])
    /\ evt.arg = <<"play", ";", "next">> => calls = <<CmdHandle("Play"), CmdHandle("Next")>>
    /\ \A p \in Producers : Len(Queued(p)) = posted[p] - taken[p]

C20_Witness ==
  /\ evt.kind = "IpcInput"
  /\ evt.arg = <<"play", ";", "next">>
  /\ calls = <<CmdHandle("Play"), CmdHandle("Next")>>
  /\ hub # <<>>
  /\ Head(hub).kind = "Player"

\* C21: the exchange thread sends at most one response and the flow receives at
\* most once, leaving the channel empty; a thread that has ended has dropped
\* the sender, so the waiting recv returns; when it ended without sending, the
\* flow returns "Failed to receive token response"; when the response it sent
\* is a failure, the flow returns "Token exchange failed" and the credentials of
\* get_credentials are not those of this attempt.
C21_OneShotHandoff ==
  /\ Len(chan.msgs) <= 1
  /\ CountOp(alog, "tx.send") <= 1
  /\ CountOp(alog, "rx.recv") <= 1
  /\ CountOp(alog, "rx.recv") = 1 => chan.msgs = <<>>
  /\ xthread = "done" => ~chan.sender
  /\ (apc = "recv" /\ xthread = "done") => ENABLED RecvToken
  /\ Has(alog, Recv(FALSE)) =>
       /\ CountOp(alog, "tx.send") = 0
       /\ apc = "done"
       /\ aresult = Some(Err("Failed to receive token response", NoCred))
  /\ (Has(alog, Recv(TRUE)) /\ \E i \in 1..Len(alog) :
                                 alog[i].op = "exchange_code" /\ ~alog[i].f) =>
       /\ apc = "done"
       /\ aresult = Some(Err("Token exchange failed", NoCred))
       /\ cred # Some(Cred("secret", attempts))

C21_Witness ==
  /\ apc = "done"
  /\ Has(alog, Recv(FALSE))
  /\ xthread = "done"
  /\ attempts = 2
  /\ cred = Some(Cred("secret", 1))

\* C24: the callback listener binds the host and the port of the redirect URI,
\* the port find_free_port returned for this attempt; when that bind fails the
\* flow returns "Failed to bind listener": no connection accepted, no channel,
\* no exchange thread, no code exchanged.
C24_BindRedirectPort ==
  \A i \in 1..Len(alog) :
    alog[i].op = "TcpListener::bind" =>
      /\ redirectUri # None
      /\ redirectUri[1].path = "/login"
      /\ redirectUri[1].scheme = "http"
      /\ alog[i].a = redirectUri[1].host
      /\ Some(alog[i].n) = redirectUri[1].port
      /\ Has(alog, FindFreePort(alog[i].n, TRUE))
      /\ FirstOp(alog, "find_free_port") < i
      /\ CountOp(alog, "TcpListener::bind") = 1
      /\ ~alog[i].f =>
           /\ apc = "done"
           /\ aresult = Some(Err("Failed to bind listener", NoCred))
           /\ conn = None
           /\ ~chan.made
           /\ xthread = "none"
           /\ CountOp(alog, "exchange_code") = 0

C24_Witness ==
  /\ apc = "done"
  /\ Has(alog, Bind(49153, FALSE))
  /\ redirectUri = Some(RedirectUri(49153))
  /\ aresult = Some(Err("Failed to bind listener", NoCred))

\* C22: the monitor sends a name exactly in the turns that change its last
\* observed value, to a value that differs from it, and the name sent is that of
\* the newly observed value; every other step leaves the last observed value and
\* adds nothing to the monitor's channel.
C22_PostIffChanged ==
  [][/\ (Len(devChan') > Len(devChan)) <=> (lastDevice' # lastDevice)
     /\ lastDevice' # lastDevice =>
          /\ lastDevice' \in Observed
          /\ devChan' = Append(devChan, UnwrapOrDefault(lastDevice'))
          /\ hub' = hub
          /\ posted' = posted]_vars

C22_Witness ==
  /\ lastDevice = Some("Headphones")
  /\ devChan = <<"", "Headphones">>

\* C23: the handler of a device-change event pauses, and sleeps 100 ms right
\* after, exactly when the status was Playing when the event was taken, and then
\* before it writes the configuration and before it restarts the worker; with
\* any other status it neither pauses nor sleeps.
C23_PauseIffPlaying ==
  [][(DispatchStep /\ evt'.kind = "AudioDeviceChanged") =>
        /\ CountOp(calls', "spotify.pause") = (IF status = "Playing" THEN 1 ELSE 0)
        /\ CountOp(calls', "thread.sleep") = (IF status = "Playing" THEN 1 ELSE 0)
        /\ status = "Playing" =>
             LET p == FirstOp(calls', "spotify.pause") IN
               /\ calls'[p + 1] = Sleep(100)
               /\ p + 1 < FirstOp(calls', "cfg.set_backend_device")
               /\ p + 1 < FirstOp(calls', "spotify.start_worker")]_vars

C23_Witness ==
  /\ evt.kind = "AudioDeviceChanged"
  /\ status = "Playing"
  /\ Has(calls, Pause)
  /\ Has(calls, Sleep(100))
  /\ Has(calls, StartWorker(FALSE))

\* C25: a cleared running flag stops nothing inside an iteration: the step that
\* clears it does not end the loop, the drain is left only with the hub empty,
\* and an event dispatched with the flag cleared is handled as ever: it is the
\* head of the hub, a SessionDied or device-change event restarts the worker and
\* a FinishedTrack event advances the queue.
C25_DrainAfterQuit ==
  [][/\ (running /\ ~running') => pc' \in {"signals", "drain"}
     /\ (pc = "drain" /\ ~running /\ hub # <<>>) => pc' = "drain"
     /\ (DispatchStep /\ ~running) =>
          /\ evt' = Head(hub)
          /\ hub' = Tail(hub)
          /\ evt'.kind \in {"SessionDied", "AudioDeviceChanged"} =>
               CountOp(calls', "spotify.start_worker") = 1
          /\ (evt'.kind = "Player" /\ evt'.arg[1] = "FinishedTrack") =>
               /\ Has(calls', QueueNext)
               /\ queueCur' = NextTrack(queueCur)
          /\ evt'.kind = "IpcInput" => calls' = IpcInputCalls(evt'.arg)]_vars

C25_Witness ==
  /\ ~running
  /\ pc = "drain"
  /\ evt.kind = "SessionDied"
  /\ calls = <<StartWorker(TRUE)>>
  /\ taken["ipc"] = 1

\* C26: once a device-change event was dispatched the configuration names its
\* device, None for the empty name, whether the restart succeeded or failed;
\* and when every name the monitor sent has been dispatched the configuration
\* names the device of the last one, the monitor's last observed value.
C26_ConfigFollowsEvents ==
  /\ evt.kind = "AudioDeviceChanged" =>
       /\ CountOp(calls, "spotify.start_worker") = 1
       /\ cfgDevice = (IF evt.arg[1] = "" THEN None ELSE Some(evt.arg[1]))
  /\ (taken["device"] > 0 /\ devChan = <<>> /\ Queued("device") = <<>>) =>
       cfgDevice = DeviceOf(UnwrapOrDefault(lastDevice))

C26_Witness ==
  /\ taken["device"] = 2
  /\ evt.kind = "AudioDeviceChanged"
  /\ evt.arg[1] = ""
  /\ Has(calls, StartWorker(FALSE))
  /\ cfgDevice = None

\* C27: a device-change event dispatched while the status is neither Playing
\* nor Paused, with a successful restart, ends with the queue's current item
\* loaded at position 0, not playing, by the handler's last call; after a
\* successful restart, whatever the status, no track is loaded only when the
\* queue has no current item.
C27_StoppedReloadsAtZero ==
  [][(/\ DispatchStep
      /\ evt'.kind = "AudioDeviceChanged"
      /\ Has(calls', StartWorker(TRUE))) =>
        /\ (status \notin {"Playing", "Paused"} /\ queueCur # None) =>
             /\ CountOp(calls', "spotify.load") = 1
             /\ calls'[Len(calls')] = Load(queueCur[1], FALSE, 0)
             /\ worker'.loaded = [track |-> queueCur[1], pos |-> 0, play |-> FALSE]
        /\ (worker'.loaded = NoTrack \/ CountOp(calls', "spotify.load") = 0) =>
             queueCur = None]_vars

C27_Witness ==
  /\ evt.kind = "AudioDeviceChanged"
  /\ status = "FinishedTrack"
  /\ queueCur = Some("Y")
  /\ calls[Len(calls)] = Load("Y", FALSE, 0)
  /\ worker.loaded = [track |-> "Y", pos |-> 0, play |-> FALSE]

\* C28: after the startup restore the player is not playing; with a current
\* item the calls were the load of that item at the saved progress, playing only
\* for a saved state of Playing, then update_track, then stop for a saved state
\* of Stopped and pause for any other; without a current item nothing was
\* loaded, paused or stopped.
C28_RestoreNotPlaying ==
  pc = "restored" =>
    /\ ~worker.loaded.play
    /\ calls[1].op = "configuration.state"
    /\ LET saved == calls[1].a
           progress == calls[1].n
       IN IF queueCur # None
          THEN /\ calls = <<calls[1], Load(queueCur[1], saved = "Playing", progress),
                            UpdateTrack, IF saved = "Stopped" THEN Stop ELSE Pause>>
               /\ worker.loaded = [track |-> queueCur[1], pos |-> progress, play |-> FALSE]
          ELSE /\ Len(calls) = 1
               /\ worker.loaded = NoTrack

C28_Witness ==
  /\ pc = "restored"
  /\ calls = <<ConfigurationState("Playing", 30000), Load("X", TRUE, 30000), UpdateTrack,
               Pause>>
  /\ worker.loaded = [track |-> "X", pos |-> 30000, play |-> FALSE]

\* C29 as stated: a name the monitor sends differs from the name it sent before,
\* which is the name of its last observed value.
C29_Original ==
  [][(Len(devChan') > Len(devChan) /\ posted["device"] + Len(devChan) > 0) =>
        devChan'[Len(devChan')] # UnwrapOrDefault(lastDevice)]_vars

====
